---- MODULE Spec2Model ----
(***************************************************************************)
(* Model of the log feed of the LocalStack dashboard proxy                 *)
(* (src/cors-server.py, CORSProxyHandler.handle_logs_request).             *)
(*                                                                         *)
(* Text is a sequence of one-character strings, so that strip, split,      *)
(* replace, upper, the keyword scan and the slices are computed the way    *)
(* the handler computes them.  One request is served at a time             *)
(* (socketserver.TCPServer, line 343).  The external calls are             *)
(* subprocess.run (docker logs, docker ps); the response goes through      *)
(* http.server: send_response and send_header fill the header buffer,      *)
(* end_headers flushes it to the socket, wfile.write writes the body.      *)
(* Each of these three steps may raise; a failed flush leaves the header   *)
(* buffer as it was (BaseHTTPRequestHandler.flush_headers).  The prints    *)
(* to standard output are taken to succeed.                                *)
(***************************************************************************)
EXTENDS Naturals, Integers, Sequences, FiniteSets, TLC

VARIABLES
    pc,              \* position of the handler
    nreq,            \* number of requests begun
    i,               \* index of the candidate of the for loop (line 195)
    last,            \* outcome of the latest subprocess.run call
    calls,           \* the subprocess.run calls of this request, in order
    logs_data,       \* line 192 / 203
    used_container,  \* line 193 / 204
    lines,           \* logs_data.strip().split('\n'), line 216
    k,               \* index of the next line of the loop of line 216
    line,            \* the loop variable of line 216
    logs,            \* line 215
    container_list,  \* line 282 / 284
    response_data,   \* line 259 / 309
    error_response,  \* line 323
    exc,             \* the exception caught at line 321
    hbuf,            \* http.server's header buffer
    wire,            \* what has been written to the socket
    escaped,         \* an exception left the handler
    request,         \* the request being handled: command, path, headers, body
    forwarded        \* the request proxy_to_localstack sent to LocalStack

vars ==
    << pc, nreq, i, last, calls, logs_data, used_container, lines, k, line,
       logs, container_list, response_data, error_response, exc, hbuf, wire,
       escaped, request, forwarded >>

----------------------------------------------------------------------------
(* Bounds of the model *)

\* requests served one after the other
MaxRequests == 2

\* the longest raw texts hold MaxLogs + MaxExtraLines lines
MaxExtraLines == 2

\* the longest texts exceed the slice that cuts them by up to MaxOver characters
MaxOver == 1

(* Program constants *)

\* message[:800] and line[:800]
MaxMsg == 800

\* logs[-50:]
MaxLogs == 50

\* container_list[:500]
MaxListing == 500

None == << "None" >>

----------------------------------------------------------------------------
(* Text *)

Min(a, b) == IF a <= b THEN a ELSE b

Max(a, b) == IF a >= b THEN a ELSE b

\* the whitespace str.strip() removes, within the alphabet of the model
Whitespace == {" ", "\n", "\t"}

Rep(c, n) == [j \in 1..n |-> c]

\* c in s
HasChar(s, c) == \E j \in 1..Len(s) : s[j] = c

\* sub in s
Contains(s, sub) ==
    \E j \in 1..(Len(s) + 1 - Len(sub)) : SubSeq(s, j, j + Len(sub) - 1) = sub

\* s[:n]
Take(s, n) == SubSeq(s, 1, Min(n, Len(s)))

\* s[-n:], n > 0
LastN(s, n) == SubSeq(s, Max(1, Len(s) - n + 1), Len(s))

\* s.strip()
Strip(s) ==
    LET keep == {j \in 1..Len(s) : s[j] \notin Whitespace}
    IN  IF keep = {} THEN << >>
        ELSE SubSeq(s, CHOOSE a \in keep : \A b \in keep : a <= b,
                       CHOOSE a \in keep : \A b \in keep : a >= b)

\* s.split(sep): one more part than there are separators
Split(s, sep) ==
    LET at == {j \in 1..Len(s) : s[j] = sep}
        n == Cardinality(at)
        pos(m) == IF m = 0 THEN 0
                  ELSE IF m = n + 1 THEN Len(s) + 1
                  ELSE CHOOSE p \in at : Cardinality({r \in at : r < p}) = m - 1
    IN  [m \in 1..(n + 1) |-> SubSeq(s, pos(m - 1) + 1, pos(m) - 1)]

\* s.split(' ', 1): at most two parts, cut at the first space
SplitFirstSpace(s) ==
    LET at == {j \in 1..Len(s) : s[j] = " "}
    IN  IF at = {} THEN << s >>
        ELSE LET p == CHOOSE a \in at : \A b \in at : a <= b
             IN  << SubSeq(s, 1, p - 1), SubSeq(s, p + 1, Len(s)) >>

\* s.replace(c, d), d one character
ReplaceChar(s, c, d) == [j \in 1..Len(s) |-> IF s[j] = c THEN d ELSE s[j]]

\* s.replace(c, '')
RemoveChar(s, c) == SelectSeq(s, LAMBDA x : x # c)

LowerCase == <<"a","b","c","d","e","f","g","h","i","j","k","l","m","n","o","p","q","r","s","t","u","v","w","x","y","z">>

UpperCase == <<"A","B","C","D","E","F","G","H","I","J","K","L","M","N","O","P","Q","R","S","T","U","V","W","X","Y","Z">>

UpperChar(c) ==
    IF \E j \in 1..26 : LowerCase[j] = c
    THEN UpperCase[CHOOSE j \in 1..26 : LowerCase[j] = c]
    ELSE c

\* s.upper()
Upper(s) == [j \in 1..Len(s) |-> UpperChar(s[j])]

\* sep.join(parts)
RECURSIVE Join(_, _)
Join(parts, sep) ==
    IF Len(parts) = 0 THEN << >>
    ELSE IF Len(parts) = 1 THEN parts[1]
    ELSE parts[1] \o sep \o Join(Tail(parts), sep)

----------------------------------------------------------------------------
(* Literals of the handler *)

localstack_main_dash ==
    <<"l","o","c","a","l","s","t","a","c","k","-","m","a","i","n">>

localstack_demo ==
    <<"l","o","c","a","l","s","t","a","c","k","-","d","e","m","o","-","l","o","c","a","l","s","t","a","c","k","-","1">>

localstack_main_us ==
    <<"l","o","c","a","l","s","t","a","c","k","_","m","a","i","n">>

localstack_plain ==
    <<"l","o","c","a","l","s","t","a","c","k">>

\* line 185
container_names ==
    << localstack_main_dash, localstack_demo, localstack_main_us, localstack_plain >>

KW_ERROR ==
    <<"E","R","R","O","R">>

KW_EXCEPTION ==
    <<"E","X","C","E","P","T","I","O","N">>

KW_FAILED ==
    <<"F","A","I","L","E","D">>

KW_FATAL ==
    <<"F","A","T","A","L">>

KW_WARN ==
    <<"W","A","R","N">>

KW_WARNING ==
    <<"W","A","R","N","I","N","G">>

KW_DEBUG ==
    <<"D","E","B","U","G">>

KW_STARTED ==
    <<"S","T","A","R","T","E","D">>

KW_READY ==
    <<"R","E","A","D","Y">>

KW_SUCCESS ==
    <<"S","U","C","C","E","S","S">>

KW_RUNNING ==
    <<"R","U","N","N","I","N","G">>

DockerPrefix ==
    <<"d","o","c","k","e","r",":">>

Troubleshooting ==
    <<"t","r","o","u","b","l","e","s","h","o","o","t","i","n","g">>

MsgNoContainer ==
    <<"N","o"," ","L","o","c","a","l","S","t","a","c","k"," ","c","o","n","t","a","i","n","e","r"," ","f","o","u","n","d"," ","r","u","n","n","i","n","g">>

MsgSearchedPrefix ==
    <<"S","e","a","r","c","h","e","d"," ","f","o","r"," ","c","o","n","t","a","i","n","e","r","s",":"," ">>

CommaSpace ==
    <<","," ">>

MsgAvailable ==
    <<"A","v","a","i","l","a","b","l","e"," ","c","o","n","t","a","i","n","e","r","s",":">>

UnableToList ==
    <<"U","n","a","b","l","e"," ","t","o"," ","l","i","s","t"," ","c","o","n","t","a","i","n","e","r","s">>

DockerNotAvailable ==
    <<"D","o","c","k","e","r"," ","n","o","t"," ","a","v","a","i","l","a","b","l","e">>

FailedToFetchPrefix ==
    <<"F","a","i","l","e","d"," ","t","o"," ","f","e","t","c","h"," ","l","o","g","s",":"," ">>

ErrorFetchingPrefix ==
    <<"E","r","r","o","r"," ","f","e","t","c","h","i","n","g"," ","l","o","g","s",":"," ">>

\* datetime.datetime.now().strftime(...): the wall clock, one opaque value
NowStamp == << "<now>" >>

----------------------------------------------------------------------------
(* What the environment can answer *)

LineStarted ==
    <<"2","0","2","4","-","0","8","-","0","8","T","1","0",":","3","0",":","4","5",".","1","2","3","Z"," ","S","t","a","r","t","e","d"," ","s","e","r","v","i","c","e">>

LineError ==
    <<"2","0","2","4","-","0","8","-","0","8","T","1","0",":","3","0",":","4","6",".","0","0","0","Z"," ","E","R","R","O","R",":"," ","c","o","n","n","e","c","t","i","o","n"," ","r","e","f","u","s","e","d">>

LineStampOnly ==
    <<"2","0","2","4","-","0","8","-","0","8","T","1","0",":","3","0",":","4","7","Z">>

LineTabbed ==
    <<"T","Z","\t","r","e","a","d","y">>

LinePlainError ==
    <<"E","R","R","O","R"," ","b","o","o","m">>

LinePlainWarn ==
    <<"d","e","b","u","g"," ","w","a","r","n">>

LineInnerZ ==
    <<"A","Z","B","T","Z"," ","F","a","i","l","e","d"," ","w","a","r","n">>

LineWarnDebug ==
    <<"1","T","Z"," ","w","a","r","n","i","n","g"," ","d","e","b","u","g">>

LineDebug ==
    <<"2","T","Z"," ","D","e","b","u","g"," ","o","n">>

LinePlain ==
    <<"h","e","l","l","o">>

LineEmptyMsg ==
    <<"3","T","Z"," ">>

LineLateStamp ==
    <<"x"," ","T","Z"," ","f","a","t","a","l">>

LineBlank ==
    <<" "," ">>

LineIndented ==
    <<" ","T","Z"," ","u","p">>

ListingShort ==
    <<"N","A","M","E","S","\t","I","M","A","G","E","\t","S","T","A","T","U","S","\n","w","e","b","\t","n","g","i","n","x","\t","U","p">>

BrokenPipeText ==
    <<"[","E","r","r","n","o"," ","3","2","]"," ","B","r","o","k","e","n"," ","p","i","p","e">>

\* lines longer than the slice: a stamped one, one whose keyword lies past
\* the cut, and one without a stamp
LongLines ==
    UNION { { <<"T","Z"," ">> \o Rep("a", MaxMsg + d),
              <<"T","Z"," ">> \o Rep("a", MaxMsg - 2 + d) \o KW_ERROR,
              Rep("b", MaxMsg + d) } : d \in 0..MaxOver }

ShortLines ==
    { LineStarted, LineError, LineStampOnly, LineTabbed, LinePlainError,
      LinePlainWarn, LineInnerZ, LineWarnDebug, LineDebug, LinePlain,
      LineEmptyMsg, LineLateStamp }

\* a raw text of n lines, the j-th one numbered
ManyLines(n) ==
    Join([j \in 1..n |-> IF j % 5 = 0 THEN LinePlain
                         ELSE IF j % 5 = 1 THEN LineDebug
                         ELSE IF j % 5 = 2 THEN LineWarnDebug
                         ELSE IF j % 5 = 3 THEN LineEmptyMsg
                         ELSE LineInnerZ], << "\n" >>)

\* the standard output of a docker logs call that printed something
Texts ==
    { l \o << "\n" >> : l \in ShortLines \cup LongLines }
    \cup { Join(<< LineStarted, LineError >>, << "\n" >>) \o << "\n" >>,
           Join(<< LinePlain, LineBlank, LineStampOnly, << >>, LinePlainError >>, << "\n" >>),
           << "\n" >> \o LineIndented \o << "\n" >> \o LinePlainWarn \o << " ", "\n", "\t" >>,
           Join(<< LineTabbed, LineStampOnly, LineInnerZ >>, << "\n" >>) }
    \cup { ManyLines(n) : n \in (MaxLogs - 1)..(MaxLogs + MaxExtraLines) }

\* standard output that holds nothing but whitespace
BlankTexts == { << >>, << "\n" >>, << " ", "\n", "\t", "\n" >> }

Raised(kind) == [kind |-> kind, returncode |-> 0 - 1, stdout |-> << >>]

Completed(rc, out) == [kind |-> "completed", returncode |-> rc, stdout |-> out]

\* subprocess.run(['docker', 'logs', ...], timeout=30): TimeoutExpired, any
\* other exception, or a CompletedProcess
LogsResults ==
    { Raised("timeout"), Raised("exception") }
    \cup { Completed(1, t) : t \in { << >>, LineError \o << "\n" >> } }
    \cup { Completed(0, t) : t \in Texts \cup BlankTexts }

\* subprocess.run(['docker', 'ps', ...], timeout=10)
PsResults ==
    { Raised("timeout"), Raised("exception"),
      Completed(1, << >>), Completed(1, ListingShort),
      Completed(0, << >>), Completed(0, ListingShort) }
    \cup { Completed(0, Rep("c", MaxListing + d)) : d \in 0..MaxOver }

\* str(e) of an exception raised while the response is written
ExcTexts == { BrokenPipeText, Rep("x", MaxMsg) }

----------------------------------------------------------------------------
(* The pure steps of handle_logs_request *)

\* line 202 without .strip()
Accepts_NoStrip(r) == r.returncode = 0 /\ r.stdout # << >>

\* line 202: result.returncode == 0 and result.stdout.strip()
Accepts(r) == r.returncode = 0 /\ Strip(r.stdout) # << >>

\* lines 208-211 without the except Exception clause
Swallows_TimeoutOnly(r) == r.kind = "timeout"

\* lines 208-211: except subprocess.TimeoutExpired / except Exception
Swallows(r) == r.kind \in {"timeout", "exception"}

\* any(keyword in message_upper for keyword in [...])
AnyKeyword(message_upper, keywords) ==
    \E j \in 1..Len(keywords) : Contains(message_upper, keywords[j])

\* lines 227-237 without .upper()
Classify_CaseSensitive(message) ==
    IF AnyKeyword(message, << KW_ERROR, KW_EXCEPTION, KW_FAILED, KW_FATAL >>)
    THEN "error"
    ELSE IF AnyKeyword(message, << KW_WARN, KW_WARNING >>)
    THEN "warning"
    ELSE IF AnyKeyword(message, << KW_DEBUG >>)
    THEN "debug"
    ELSE "info"

\* lines 227-237
Classify(message) ==
    LET message_upper == Upper(message)
    IN  IF AnyKeyword(message_upper, << KW_ERROR, KW_EXCEPTION, KW_FAILED, KW_FATAL >>)
        THEN "error"
        ELSE IF AnyKeyword(message_upper, << KW_WARN, KW_WARNING >>)
        THEN "warning"
        ELSE IF AnyKeyword(message_upper, << KW_DEBUG >>)
        THEN "debug"
        ELSE IF AnyKeyword(message_upper, << KW_STARTED, KW_READY, KW_SUCCESS, KW_RUNNING >>)
        THEN "info"
        ELSE "info"

\* line 224: parts[0].replace('T', ' ').replace('Z', '')
Timestamp(part) == RemoveChar(ReplaceChar(part, "T", " "), "Z")

\* lines 246-250 (and 253-257)
FallbackRecord(ln) ==
    [timestamp |-> NowStamp, level |-> "info", message |-> Take(ln, MaxMsg)]

\* lines 219-257, for one line that is not blank: the records appended to
\* logs.  Nothing in the try block raises on a str, so the handler of line
\* 251 is never entered.
ParseLine(ln) ==
    IF HasChar(ln, "T") /\ HasChar(ln, "Z")
    THEN LET parts == SplitFirstSpace(ln)
         IN  IF Len(parts) >= 2
             THEN << [timestamp |-> Timestamp(parts[1]),
                      level     |-> Classify(parts[2]),
                      message   |-> Take(parts[2], MaxMsg)] >>
             ELSE << >>
    ELSE << FallbackRecord(ln) >>

\* lines 259-265 with logs[:50]
Assemble_FirstFifty(all, used) ==
    [success   |-> TRUE,
     logs      |-> Take(all, MaxLogs),
     total     |-> Len(all),
     source    |-> DockerPrefix \o used,
     container |-> used]

\* lines 259-265
Assemble(all, used) ==
    [success   |-> TRUE,
     logs      |-> LastN(all, MaxLogs),
     total     |-> Len(all),
     source    |-> DockerPrefix \o used,
     container |-> used]

\* lines 282-284 without the test of returncode
ListingText_AnyExit(r) ==
    IF r.kind = "completed" THEN r.stdout ELSE DockerNotAvailable

\* lines 282-284
ListingText(r) ==
    IF r.kind = "completed"
    THEN IF r.returncode = 0 THEN r.stdout ELSE UnableToList
    ELSE DockerNotAvailable

\* lines 286-307 with the listing not cut
TroubleshootLogs_NoCut(listing) ==
    << [timestamp |-> NowStamp, level |-> "warning", message |-> MsgNoContainer],
       [timestamp |-> NowStamp, level |-> "info",
        message |-> MsgSearchedPrefix \o Join(container_names, CommaSpace)],
       [timestamp |-> NowStamp, level |-> "info", message |-> MsgAvailable],
       [timestamp |-> NowStamp, level |-> "debug", message |-> listing] >>

\* lines 286-307
TroubleshootLogs(listing) ==
    << [timestamp |-> NowStamp, level |-> "warning", message |-> MsgNoContainer],
       [timestamp |-> NowStamp, level |-> "info",
        message |-> MsgSearchedPrefix \o Join(container_names, CommaSpace)],
       [timestamp |-> NowStamp, level |-> "info", message |-> MsgAvailable],
       [timestamp |-> NowStamp, level |-> "debug", message |-> Take(listing, MaxListing)] >>

\* lines 309-314
DiagnosticFeed(listing) ==
    [success |-> TRUE,
     logs    |-> TroubleshootLogs(listing),
     total   |-> Len(TroubleshootLogs(listing)),
     source  |-> Troubleshooting]

\* lines 323-331
ErrorResponse(text) ==
    [success |-> FALSE,
     error   |-> FailedToFetchPrefix \o text,
     logs    |-> << [timestamp |-> NowStamp, level |-> "error",
                     message |-> ErrorFetchingPrefix \o text] >>]

----------------------------------------------------------------------------
(* The response, as http.server builds it *)

StatusLine(code) == [item |-> "status", code |-> code]

Header(name, value) == [item |-> "header", name |-> name, value |-> value]

EndOfHeaders == [item |-> "end"]

Body(data) == [item |-> "body", json |-> data]

\* send_response(code): the status line and the Server and Date headers
ResponseStart(code) ==
    << StatusLine(code), Header("Server", "<version>"), Header("Date", "<date>") >>

\* lines 19-23: end_headers adds the three CORS headers
CorsHeaders ==
    << Header("Access-Control-Allow-Origin", "*"),
       Header("Access-Control-Allow-Methods", "GET, POST, PUT, DELETE, OPTIONS"),
       Header("Access-Control-Allow-Headers", "Content-Type, Authorization") >>

NoExc == [raised |-> FALSE, text |-> << >>, at |-> "nowhere"]

Exc(text, at) == [raised |-> TRUE, text |-> text, at |-> at]

NoResult == [kind |-> "none", returncode |-> 0 - 1, stdout |-> << >>]

NoData == [success |-> FALSE]

\* the docker ps call, in the list of calls
DockerPs == << "docker ps" >>

----------------------------------------------------------------------------
(* Requests *)

\* line 37
LogsPath ==
    <<"/","l","o","g","s">>

\* line 48
TestPath ==
    <<"/","t","e","s","t">>

\* lines 34 and 51
ApiPrefix ==
    <<"/","a","p","i","/">>

ApiHealthPath ==
    <<"/","a","p","i","/","h","e","a","l","t","h">>

OtherPath ==
    <<"/","o","t","h","e","r">>

\* line 16
LOCALSTACK_URL ==
    <<"h","t","t","p",":","/","/","l","o","c","a","l","h","o","s","t",":","4","5","6","6">>

\* the paths a client asks for
Paths == { LogsPath, TestPath, ApiHealthPath, OtherPath }

\* request bodies: none, a JSON object, a JSON list, and text that is not
\* JSON
RequestBodies == { "", "{\"service\": \"s3\"}", "[1]", "not json" }

\* the Content-Length header: not sent, the length of the body, or not a number
ContentLengths == { "absent", "valid", "invalid" }

Request(command, path, content_length, body) ==
    [command |-> command, path |-> path, content_length |-> content_length,
     body |-> body]

NoRequest == Request("none", << >>, "absent", "")

NoForward == [method |-> "none"]

\* Request(url) of line 71 carries no data
NoBody == "<none>"

----------------------------------------------------------------------------
(* The handler *)

Init ==
    /\ pc = "idle"
    /\ nreq = 0
    /\ i = 1
    /\ last = NoResult
    /\ calls = << >>
    /\ logs_data = None
    /\ used_container = None
    /\ lines = << >>
    /\ k = 1
    /\ line = None
    /\ logs = << >>
    /\ container_list = None
    /\ response_data = NoData
    /\ error_response = NoData
    /\ exc = NoExc
    /\ hbuf = << >>
    /\ wire = << >>
    /\ escaped = FALSE
    /\ request = NoRequest
    /\ forwarded = NoForward

\* lines 33-39 with logs_data and used_container kept from the request before
do_GET_KeepsData ==
    /\ pc \in {"idle", "done"}
    /\ nreq < MaxRequests
    /\ nreq' = nreq + 1
    /\ pc' = "resolve"
    /\ i' = 1
    /\ last' = NoResult
    /\ calls' = << >>
    /\ logs_data' = logs_data
    /\ used_container' = used_container
    /\ lines' = << >>
    /\ k' = 1
    /\ line' = None
    /\ logs' = << >>
    /\ container_list' = None
    /\ response_data' = NoData
    /\ error_response' = NoData
    /\ exc' = NoExc
    /\ hbuf' = << >>
    /\ wire' = << >>
    /\ escaped' = FALSE
    /\ request' = Request("GET", LogsPath, "absent", "")
    /\ forwarded' = NoForward

\* lines 33-39 and 178-193: GET /logs enters handle_logs_request on a fresh
\* handler object; nothing of the request before is kept
do_GET ==
    /\ pc \in {"idle", "done"}
    /\ nreq < MaxRequests
    /\ nreq' = nreq + 1
    /\ pc' = "resolve"
    /\ i' = 1
    /\ last' = NoResult
    /\ calls' = << >>
    /\ logs_data' = None
    /\ used_container' = None
    /\ lines' = << >>
    /\ k' = 1
    /\ line' = None
    /\ logs' = << >>
    /\ container_list' = None
    /\ response_data' = NoData
    /\ error_response' = NoData
    /\ exc' = NoExc
    /\ hbuf' = << >>
    /\ wire' = << >>
    /\ escaped' = FALSE
    /\ request' = Request("GET", LogsPath, "absent", "")
    /\ forwarded' = NoForward

\* lines 195-211: one iteration of the for loop
TryCandidate ==
    /\ pc = "resolve"
    /\ \E r \in LogsResults :
        /\ last' = r
        /\ calls' = Append(calls, container_names[i])
        /\ IF r.kind = "completed"
           THEN IF Accepts(r)
                THEN /\ logs_data' = r.stdout
                     /\ used_container' = container_names[i]
                     /\ pc' = "resolved"
                     /\ UNCHANGED << i, exc >>
                ELSE /\ pc' = IF i < Len(container_names) THEN "resolve" ELSE "resolved"
                     /\ i' = IF i < Len(container_names) THEN i + 1 ELSE i
                     /\ UNCHANGED << logs_data, used_container, exc >>
           ELSE IF Swallows(r)
                THEN /\ pc' = IF i < Len(container_names) THEN "resolve" ELSE "resolved"
                     /\ i' = IF i < Len(container_names) THEN i + 1 ELSE i
                     /\ UNCHANGED << logs_data, used_container, exc >>
                ELSE /\ exc' = Exc(BrokenPipeText, "subprocess.run")
                     /\ pc' = "except"
                     /\ UNCHANGED << i, logs_data, used_container >>
    /\ UNCHANGED << nreq, lines, k, line, logs, container_list, response_data,
                    error_response, hbuf, wire, escaped >>
    /\ UNCHANGED << request, forwarded >>

\* lines 213-216 and 274-276
CheckLogsData ==
    /\ pc = "resolved"
    /\ IF logs_data # None /\ logs_data # << >>
       THEN /\ lines' = Split(Strip(logs_data), "\n")
            /\ pc' = "parse"
       ELSE /\ pc' = "listing"
            /\ UNCHANGED lines
    /\ k' = 1
    /\ logs' = << >>
    /\ UNCHANGED << nreq, i, last, calls, logs_data, used_container, line,
                    container_list, response_data, error_response, exc, hbuf,
                    wire, escaped >>
    /\ UNCHANGED << request, forwarded >>

\* lines 216-257: one iteration of the loop over the lines
ParseNextLine ==
    /\ pc = "parse"
    /\ k <= Len(lines)
    /\ line' = lines[k]
    /\ logs' = IF Strip(lines[k]) # << >> THEN logs \o ParseLine(lines[k]) ELSE logs
    /\ k' = k + 1
    /\ UNCHANGED << pc, nreq, i, last, calls, logs_data, used_container, lines,
                    container_list, response_data, error_response, exc, hbuf,
                    wire, escaped >>
    /\ UNCHANGED << request, forwarded >>

\* lines 259-265
AssembleFeed ==
    /\ pc = "parse"
    /\ k > Len(lines)
    /\ response_data' = Assemble(logs, used_container)
    /\ pc' = "send"
    /\ UNCHANGED << nreq, i, last, calls, logs_data, used_container, lines, k,
                    line, logs, container_list, error_response, exc, hbuf,
                    wire, escaped >>
    /\ UNCHANGED << request, forwarded >>

\* lines 278-314
ListContainers ==
    /\ pc = "listing"
    /\ \E r \in PsResults :
        /\ last' = r
        /\ container_list' = ListingText(r)
        /\ response_data' = DiagnosticFeed(ListingText(r))
    /\ calls' = Append(calls, DockerPs)
    /\ pc' = "send"
    /\ UNCHANGED << nreq, i, logs_data, used_container, lines, k, line, logs,
                    error_response, exc, hbuf, wire, escaped >>
    /\ UNCHANGED << request, forwarded >>

\* lines 267-268 and 316-317: send_response(200), send_header
SendResponse ==
    /\ pc = "send"
    /\ \/ /\ hbuf' = hbuf \o ResponseStart(200)
                     \o << Header("Content-Type", "application/json") >>
          /\ pc' = "end_headers"
          /\ UNCHANGED exc
       \/ \E t \in ExcTexts :
          /\ exc' = Exc(t, "send_response")
          /\ pc' = "except"
          /\ UNCHANGED hbuf
    /\ UNCHANGED << nreq, i, last, calls, logs_data, used_container, lines, k,
                    line, logs, container_list, response_data, error_response,
                    wire, escaped >>
    /\ UNCHANGED << request, forwarded >>

\* lines 269 and 318: end_headers flushes the header buffer
EndHeaders ==
    /\ pc = "end_headers"
    /\ LET buffered == hbuf \o CorsHeaders \o << EndOfHeaders >>
       IN  \/ /\ wire' = wire \o buffered
              /\ hbuf' = << >>
              /\ pc' = "write"
              /\ UNCHANGED exc
           \/ \E t \in ExcTexts :
              /\ exc' = Exc(t, "end_headers")
              /\ hbuf' = buffered
              /\ pc' = "except"
              /\ UNCHANGED wire
    /\ UNCHANGED << nreq, i, last, calls, logs_data, used_container, lines, k,
                    line, logs, container_list, response_data, error_response,
                    escaped >>
    /\ UNCHANGED << request, forwarded >>

\* lines 270-272 and 319: wfile.write(json.dumps(response_data).encode())
WriteBody ==
    /\ pc = "write"
    /\ \/ /\ wire' = Append(wire, Body(response_data))
          /\ pc' = "done"
          /\ UNCHANGED exc
       \/ \E t \in ExcTexts :
          /\ exc' = Exc(t, "wfile.write")
          /\ pc' = "except"
          /\ UNCHANGED wire
    /\ UNCHANGED << nreq, i, last, calls, logs_data, used_container, lines, k,
                    line, logs, container_list, response_data, error_response,
                    hbuf, escaped >>
    /\ UNCHANGED << request, forwarded >>

\* lines 321-331
BuildErrorResponse ==
    /\ pc = "except"
    /\ error_response' = ErrorResponse(exc.text)
    /\ pc' = "send_error"
    /\ UNCHANGED << nreq, i, last, calls, logs_data, used_container, lines, k,
                    line, logs, container_list, response_data, exc, hbuf,
                    wire, escaped >>
    /\ UNCHANGED << request, forwarded >>

\* lines 333-334: an exception here leaves handle_logs_request
SendErrorResponse ==
    /\ pc = "send_error"
    /\ \/ /\ hbuf' = hbuf \o ResponseStart(500)
                     \o << Header("Content-Type", "application/json") >>
          /\ pc' = "end_error_headers"
          /\ UNCHANGED escaped
       \/ /\ escaped' = TRUE
          /\ pc' = "done"
          /\ UNCHANGED hbuf
    /\ UNCHANGED << nreq, i, last, calls, logs_data, used_container, lines, k,
                    line, logs, container_list, response_data, error_response,
                    exc, wire >>
    /\ UNCHANGED << request, forwarded >>

\* line 335
EndErrorHeaders ==
    /\ pc = "end_error_headers"
    /\ LET buffered == hbuf \o CorsHeaders \o << EndOfHeaders >>
       IN  \/ /\ wire' = wire \o buffered
              /\ hbuf' = << >>
              /\ pc' = "write_error"
              /\ UNCHANGED escaped
           \/ /\ escaped' = TRUE
              /\ hbuf' = buffered
              /\ pc' = "done"
              /\ UNCHANGED wire
    /\ UNCHANGED << nreq, i, last, calls, logs_data, used_container, lines, k,
                    line, logs, container_list, response_data, error_response,
                    exc >>
    /\ UNCHANGED << request, forwarded >>

\* line 336
WriteErrorBody ==
    /\ pc = "write_error"
    /\ \/ /\ wire' = Append(wire, Body(error_response))
          /\ UNCHANGED escaped
       \/ /\ escaped' = TRUE
          /\ UNCHANGED wire
    /\ pc' = "done"
    /\ UNCHANGED << nreq, i, last, calls, logs_data, used_container, lines, k,
                    line, logs, container_list, response_data, error_response,
                    exc, hbuf >>
    /\ UNCHANGED << request, forwarded >>

----------------------------------------------------------------------------
(* The other handlers: OPTIONS, the proxy and the demo test *)

\* path.startswith(p)
StartsWith(s, p) == Len(s) >= Len(p) /\ SubSeq(s, 1, Len(p)) = p

\* s[n:]
From(s, n) == SubSeq(s, n + 1, Len(s))

Digit(d) == << "0", "1", "2", "3", "4", "5", "6", "7", "8", "9" >>[d + 1]

RECURSIVE Str(_)
\* the decimal text an f-string gives for a code
Str(n) == IF n < 10 THEN << Digit(n) >> ELSE Str(n \div 10) \o << Digit(n % 10) >>

\* line 58
EndpointNotFound ==
    <<"E","n","d","p","o","i","n","t"," ","n","o","t"," ","f","o","u","n",
      "d">>

\* line 86
HttpPrefix ==
    <<"H","T","T","P"," ">>

ColonSpace ==
    <<":"," ">>

\* line 94
ConnectionFailedPrefix ==
    <<"L","o","c","a","l","S","t","a","c","k"," ","c","o","n","n","e","c",
      "t","i","o","n"," ","f","a","i","l","e","d",":"," ">>

\* line 102
ProxyErrorPrefix ==
    <<"P","r","o","x","y"," ","e","r","r","o","r",":"," ">>

\* line 148; the first item is the check mark
DemoCompleted ==
    << "<check>" >> \o
    <<" ","D","e","m","o"," ","c","o","m","p","l","e","t","e","d"," ","s",
      "u","c","c","e","s","s","f","u","l","l","y","!">> \o << "\n", "\n" >>

\* line 150
WarningsPrefix ==
    << "\n", "\n" >> \o
    <<"W","a","r","n","i","n","g","s",":">> \o << "\n" >>

\* line 159; the first item is the cross mark
DemoFailed ==
    << "<cross>" >> \o
    <<" ","D","e","m","o"," ","f","a","i","l","e","d","!">> \o << "\n", "\n" >> \o
    <<"E","r","r","o","r",":">> \o << "\n" >>

DemoFailedOutput ==
    << "\n", "\n" >> \o
    <<"O","u","t","p","u","t",":">> \o << "\n" >>

\* line 167
DemoTimedOut ==
    <<"D","e","m","o"," ","e","x","e","c","u","t","i","o","n"," ","t","i",
      "m","e","d"," ","o","u","t"," ","a","f","t","e","r"," ","6","0"," ",
      "s","e","c","o","n","d","s">>

\* line 175
DemoErrorPrefix ==
    <<"D","e","m","o"," ","e","x","e","c","u","t","i","o","n"," ","e","r",
      "r","o","r",":"," ">>

\* what evaluating "except subprocess.TimeoutExpired" raises while the local
\* name subprocess of line 136 is not yet bound
UnboundSubprocess ==
    <<"c","a","n","n","o","t"," ","a","c","c","e","s","s"," ","l","o","c",
      "a","l"," ","v","a","r","i","a","b","l","e"," ","'","s","u","b","p",
      "r","o","c","e","s","s","'"," ","w","h","e","r","e"," ","i","t"," ",
      "i","s"," ","n","o","t"," ","a","s","s","o","c","i","a","t","e","d",
      " ","w","i","t","h"," ","a"," ","v","a","l","u","e">>

NotFoundReason ==
    <<"N","o","t"," ","F","o","u","n","d">>

RefusedReason ==
    <<"[","E","r","r","n","o"," ","1","1","1","]"," ","C","o","n","n","e",
      "c","t","i","o","n"," ","r","e","f","u","s","e","d">>

TimedOutText ==
    <<"t","i","m","e","d"," ","o","u","t">>

BackendData ==
    <<"{","\"","s","t","a","t","u","s","\"",":"," ","\"","r","u","n","n",
      "i","n","g","\"","}">>

DemoStdout ==
    <<"d","e","m","o"," ","o","k">>

DemoStderr ==
    <<"w","a","r","n">>

\* lines 71-72: what urlopen and response.read() give
BackendResults ==
    { [kind |-> "ok", data |-> BackendData],
      [kind |-> "HTTPError", code |-> 404, reason |-> NotFoundReason],
      [kind |-> "URLError", reason |-> RefusedReason],
      [kind |-> "exception", text |-> TimedOutText] }

\* lines 139-141: what subprocess.run gives
DemoResults ==
    { [kind |-> "completed", returncode |-> 0, stdout |-> DemoStdout, stderr |-> << >>],
      [kind |-> "completed", returncode |-> 0, stdout |-> DemoStdout, stderr |-> DemoStderr],
      [kind |-> "completed", returncode |-> 1, stdout |-> << >>, stderr |-> DemoStderr],
      [kind |-> "TimeoutExpired"],
      [kind |-> "exception", text |-> BrokenPipeText] }

\* lines 123-124: int(Content-Length, default 0) bytes of the body are read
PostData(req) == IF req.content_length = "valid" THEN req.body ELSE ""

\* lines 127-128: json.loads gives an object, whose get() can be called
JsonObject(text) == text = "{\"service\": \"s3\"}"

\* lines 123-130 raise: int() of a Content-Length that is no number,
\* json.loads of text that is no JSON, or get() of a value that is no object
ReadRaises(req) ==
    \/ req.content_length = "invalid"
    \/ PostData(req) # "" /\ ~JsonObject(PostData(req))

\* lines 148-150
DemoOutput(result) ==
    DemoCompleted \o result.stdout
        \o (IF result.stderr # << >> THEN WarningsPrefix \o result.stderr ELSE << >>)

\* line 159
DemoErrorOutput(result) ==
    DemoFailed \o result.stderr \o DemoFailedOutput \o result.stdout

\* send_response(code), send_header('Content-Type', ctype), end_headers() and
\* wfile.write(data) from header buffer h and written items w: each of the
\* three calls may raise t, a failed flush keeps the buffer
Respond(h, w, code, ctype, data, t) ==
    LET buffered == h \o ResponseStart(code) \o << Header("Content-Type", ctype) >>
                      \o CorsHeaders \o << EndOfHeaders >>
    IN  { [hbuf |-> h, wire |-> w, exc |-> Exc(t, "send_response")],
          [hbuf |-> buffered, wire |-> w, exc |-> Exc(t, "end_headers")],
          [hbuf |-> << >>, wire |-> w \o buffered, exc |-> Exc(t, "wfile.write")],
          [hbuf |-> << >>, wire |-> w \o buffered \o << Body(data) >>, exc |-> NoExc] }

\* lines 25-31: send_response(200), the three headers, and end_headers,
\* which adds the three headers of lines 20-22 and flushes
OptionsResponse ==
    ResponseStart(200) \o CorsHeaders \o CorsHeaders \o << EndOfHeaders >>

\* a handler object is made for the request: no local of a request before is
\* kept
NewHandler(req) ==
    /\ pc \in {"idle", "done"}
    /\ nreq < MaxRequests
    /\ nreq' = nreq + 1
    /\ request' = req
    /\ forwarded' = NoForward
    /\ i' = 1
    /\ last' = NoResult
    /\ calls' = << >>
    /\ logs_data' = None
    /\ used_container' = None
    /\ lines' = << >>
    /\ k' = 1
    /\ line' = None
    /\ logs' = << >>
    /\ container_list' = None
    /\ response_data' = NoData
    /\ error_response' = NoData

\* the handler returns, or esc: an exception leaves it
Finish(o, esc) ==
    /\ hbuf' = o.hbuf
    /\ wire' = o.wire
    /\ exc' = o.exc
    /\ escaped' = esc
    /\ pc' = "done"

\* lines 25-31: no try, an exception of send_response or end_headers leaves
\* the handler
do_OPTIONS ==
    \E path \in Paths :
        /\ NewHandler(Request("OPTIONS", path, "absent", ""))
        /\ \/ Finish([hbuf |-> << >>, wire |-> OptionsResponse, exc |-> NoExc], FALSE)
           \/ \E t \in ExcTexts :
                Finish([hbuf |-> << >>, wire |-> << >>,
                        exc |-> Exc(t, "send_response")], TRUE)
           \/ \E t \in ExcTexts :
                Finish([hbuf |-> OptionsResponse, wire |-> << >>,
                        exc |-> Exc(t, "end_headers")], TRUE)

\* lines 33-36: GET of a path under /api/
do_GET_api ==
    \E path \in { p \in Paths : StartsWith(p, ApiPrefix) } :
        /\ NewHandler(Request("GET", path, "absent", ""))
        /\ pc' = "proxy"
        /\ hbuf' = << >>
        /\ wire' = << >>
        /\ exc' = NoExc
        /\ escaped' = FALSE

\* lines 47-59
do_POST ==
    \E path \in Paths, content_length \in ContentLengths, body \in RequestBodies :
        /\ NewHandler(Request("POST", path, content_length, body))
        /\ IF path = TestPath
           THEN /\ pc' = "demo"
                /\ hbuf' = << >>
                /\ wire' = << >>
                /\ exc' = NoExc
                /\ escaped' = FALSE
           ELSE IF StartsWith(path, ApiPrefix)
           THEN /\ pc' = "proxy"
                /\ hbuf' = << >>
                /\ wire' = << >>
                /\ exc' = NoExc
                /\ escaped' = FALSE
           ELSE \E t \in ExcTexts :
                \E o \in Respond(<< >>, << >>, 404, "application/json",
                                 [error |-> EndpointNotFound], t) :
                    Finish(o, o.exc.raised)

\* lines 61-103: the request sent to LocalStack is Request(url), a GET
\* without body, whatever the command and the body of the request proxied
proxy_to_localstack ==
    /\ pc = "proxy"
    /\ forwarded' = [method |-> "GET",
                     url |-> LOCALSTACK_URL \o From(request.path, 4),
                     data |-> NoBody]
    /\ \E b \in BackendResults, t \in ExcTexts :
        CASE b.kind = "ok" ->
                \E o \in Respond(hbuf, wire, 200, "application/json", b.data, t) :
                    IF ~o.exc.raised
                    THEN Finish(o, FALSE)
                    ELSE \E o2 \in Respond(o.hbuf, o.wire, 500, "application/json",
                                           [error |-> ProxyErrorPrefix \o o.exc.text], t) :
                             Finish(o2, o2.exc.raised)
          [] b.kind = "HTTPError" ->
                \E o \in Respond(hbuf, wire, b.code, "application/json",
                                 [error |-> HttpPrefix \o Str(b.code) \o ColonSpace
                                              \o b.reason], t) :
                    Finish(o, o.exc.raised)
          [] b.kind = "URLError" ->
                \E o \in Respond(hbuf, wire, 503, "application/json",
                                 [error |-> ConnectionFailedPrefix \o b.reason], t) :
                    Finish(o, o.exc.raised)
          [] b.kind = "exception" ->
                \E o \in Respond(hbuf, wire, 500, "application/json",
                                 [error |-> ProxyErrorPrefix \o b.text], t) :
                    Finish(o, o.exc.raised)
    /\ UNCHANGED << nreq, i, last, calls, logs_data, used_container, lines, k,
                    line, logs, container_list, response_data, error_response,
                    request >>

\* lines 120-176: an exception of lines 123-130 reaches the except clauses
\* before "import subprocess" of line 136 has run, so evaluating
\* "except subprocess.TimeoutExpired" raises and the handler is left with
\* nothing written; after line 136 the two except clauses answer 408 and 500
handle_demo_test ==
    /\ pc = "demo"
    /\ IF ReadRaises(request)
       THEN Finish([hbuf |-> hbuf, wire |-> wire,
                    exc |-> Exc(UnboundSubprocess, "except")], TRUE)
       ELSE \E result \in DemoResults, t \in ExcTexts :
            CASE result.kind = "completed" ->
                    \E o \in Respond(hbuf, wire,
                                     IF result.returncode = 0 THEN 200 ELSE 500,
                                     "text/plain",
                                     IF result.returncode = 0
                                         THEN DemoOutput(result)
                                         ELSE DemoErrorOutput(result), t) :
                        IF ~o.exc.raised
                        THEN Finish(o, FALSE)
                        ELSE \E o2 \in Respond(o.hbuf, o.wire, 500, "text/plain",
                                               DemoErrorPrefix \o o.exc.text, t) :
                                 Finish(o2, o2.exc.raised)
              [] result.kind = "TimeoutExpired" ->
                    \E o \in Respond(hbuf, wire, 408, "text/plain", DemoTimedOut, t) :
                        Finish(o, o.exc.raised)
              [] result.kind = "exception" ->
                    \E o \in Respond(hbuf, wire, 500, "text/plain",
                                     DemoErrorPrefix \o result.text, t) :
                        Finish(o, o.exc.raised)
    /\ UNCHANGED << nreq, i, last, calls, logs_data, used_container, lines, k,
                    line, logs, container_list, response_data, error_response,
                    request, forwarded >>

Next ==
    \/ do_GET
    \/ TryCandidate
    \/ CheckLogsData
    \/ ParseNextLine
    \/ AssembleFeed
    \/ ListContainers
    \/ SendResponse
    \/ EndHeaders
    \/ WriteBody
    \/ BuildErrorResponse
    \/ SendErrorResponse
    \/ EndErrorHeaders
    \/ WriteErrorBody
    \/ do_OPTIONS
    \/ do_GET_api
    \/ do_POST
    \/ proxy_to_localstack
    \/ handle_demo_test

Spec == Init /\ [][Next]_vars

----------------------------------------------------------------------------
(* What a client sees *)

\* the status lines written to the socket, in order
StatusCodes(w) ==
    LET st == SelectSeq(w, LAMBDA x : x.item = "status")
    IN  [j \in 1..Len(st) |-> st[j].code]

\* the bodies written to the socket, in order
Bodies(w) ==
    LET bd == SelectSeq(w, LAMBDA x : x.item = "body")
    IN  [j \in 1..Len(bd) |-> bd[j].json]

\* the request is GET /logs, lines 37-39
LogsRequest == request.command = "GET" /\ request.path = LogsPath

\* the request ended without any exception: one response was written
Served == LogsRequest /\ pc = "done" /\ ~exc.raised

\* a retrieval that does not count: it raised, exited non-zero, or printed
\* nothing but whitespace
Rejected(r) ==
    \/ r.kind # "completed"
    \/ r.returncode # 0
    \/ \A j \in 1..Len(r.stdout) : r.stdout[j] \in Whitespace

----------------------------------------------------------------------------
(* Source resolution *)

C1_State ==
    /\ \A j \in 1..Len(calls) :
          calls[j] # DockerPs => j <= Len(container_names) /\ calls[j] = container_names[j]
    /\ used_container # None =>
          /\ Len(calls) \in 1..Len(container_names)
          /\ used_container = container_names[Len(calls)]
          /\ ~Rejected(last)
          /\ logs_data = last.stdout
          /\ response_data # NoData =>
                /\ response_data.source = DockerPrefix \o container_names[Len(calls)]
                /\ response_data.container = container_names[Len(calls)]
          /\ Served => Bodies(wire) = << response_data >>

C1_Step == (Len(calls') = Len(calls) + 1 /\ Len(calls) >= 1) => Rejected(last)

\* C1: the candidates are fetched in list order; the source used is the
\* first one whose retrieval exited 0 with output that is not blank: every
\* fetch but the first follows a rejected one, nothing is fetched after the
\* winner, and the feed's source and container name the winner.
C1_FirstAcceptedWins == [][C1_State' /\ C1_Step]_vars

\* the fourth candidate won after three rejected ones, and its feed was served
C1_Witness ==
    /\ Served
    /\ Len(calls) = 4
    /\ used_container = localstack_plain
    /\ Bodies(wire) = << response_data >>
    /\ response_data.source = DockerPrefix \o localstack_plain

C2_Step ==
    (pc = "resolve" /\ calls' # calls /\ Rejected(last')) =>
        /\ pc' = IF i < Len(container_names) THEN "resolve" ELSE "resolved"
        /\ i < Len(container_names) => i' = i + 1
        /\ exc' = NoExc
        /\ error_response' = NoData
        /\ ~escaped'

C2_State ==
    LogsRequest =>
    /\ exc.raised => exc.at \in {"send_response", "end_headers", "wfile.write"}
    /\ (error_response # NoData \/ \E j \in 1..Len(hbuf \o wire) :
            (hbuf \o wire)[j] = StatusLine(500)) => exc.raised
    /\ (response_data # NoData /\ response_data.source = Troubleshooting) =>
            /\ used_container = None
            /\ Len(calls) = Len(container_names) + 1
    /\ Served =>
            /\ StatusCodes(wire) = << 200 >>
            /\ Bodies(wire) = << response_data >>
            /\ response_data.success

\* C2: a candidate whose retrieval timed out, raised or exited non-zero is
\* passed over: the loop goes on to the next candidate, the exception
\* handler of the request is not entered, and the 500 error feed is built
\* only for an exception raised while the response is written; the
\* diagnostic feed is built only after all four candidates were fetched.
C2_CandidateFailuresSwallowed == [][C2_State' /\ C2_Step]_vars

\* three candidates timed out or raised, the fourth was served with 200
C2_Witness ==
    /\ Served
    /\ Len(calls) = 4
    /\ used_container = container_names[4]
    /\ StatusCodes(wire) = << 200 >>
    /\ response_data.success

----------------------------------------------------------------------------
(* Diagnostic fallback *)

\* C3: when no candidate is accepted and the response is written without an
\* exception, the answer is status 200 with success = true, source =
\* "troubleshooting", total = 4 and four records: the warning, the info
\* naming all four candidates, the info "Available containers:" and a debug
\* record holding the first 500 characters of the container listing.
C3_DiagnosticFeed ==
    (Served /\ used_container = None) =>
        /\ Len(calls) = Len(container_names) + 1
        /\ StatusCodes(wire) = << 200 >>
        /\ Len(Bodies(wire)) = 1
        /\ LET feed == Bodies(wire)[1]
           IN  /\ feed.success = TRUE
               /\ feed.source = Troubleshooting
               /\ feed.total = 4
               /\ Len(feed.logs) = 4
               /\ [j \in 1..4 |-> feed.logs[j].level] = << "warning", "info", "info", "debug" >>
               /\ feed.logs[1].message = MsgNoContainer
               /\ \A j \in 1..Len(container_names) :
                     Contains(feed.logs[2].message, container_names[j])
               /\ feed.logs[3].message = MsgAvailable
               /\ Len(feed.logs[4].message) = Min(MaxListing, Len(container_list))
               /\ \A j \in 1..Len(feed.logs[4].message) :
                     feed.logs[4].message[j] = container_list[j]

\* the listing was longer than 500 characters and the diagnostic feed was served
C3_Witness ==
    /\ Served
    /\ used_container = None
    /\ Len(container_list) > MaxListing
    /\ Len(Bodies(wire)[1].logs[4].message) = MaxListing

----------------------------------------------------------------------------
(* Record parser and severity classifier *)

Levels == {"debug", "info", "warning", "error"}

\* the line holds a character that is not whitespace
NonBlank(ln) == \E j \in 1..Len(ln) : ln[j] \notin Whitespace

\* the position of the first space of a line that has one
FirstSpace(ln) ==
    CHOOSE p \in 1..Len(ln) : ln[p] = " " /\ \A q \in 1..(p - 1) : ln[q] # " "

\* the line holds 'T', 'Z' and a space
Stamped(ln) == HasChar(ln, "T") /\ HasChar(ln, "Z") /\ HasChar(ln, " ")

\* the loop of line 216 has just handled `line`
Handled == pc = "parse" /\ k > 1 /\ line = lines[k - 1]

\* the keyword occurs in the text, letter case ignored
ContainsCI(text, keyword) ==
    \E j \in 0..(Len(text) - Len(keyword)) :
        \A m \in 1..Len(keyword) : UpperChar(text[j + m]) = keyword[m]

\* the ordered rules of the Severity Classifier
RuleLevel(text) ==
    IF \E kw \in {KW_ERROR, KW_EXCEPTION, KW_FAILED, KW_FATAL} : ContainsCI(text, kw)
    THEN "error"
    ELSE IF ContainsCI(text, KW_WARN) THEN "warning"
    ELSE IF ContainsCI(text, KW_DEBUG) THEN "debug"
    ELSE "info"

\* C4: each non-blank line yields exactly one record and each blank line
\* none, so the number of records is the number of non-blank lines handled;
\* a line with 'T' and 'Z' and no space yields a record whose message is
\* the whole line.  (The handler drops such a line.)
C4_OneRecordPerNonBlankLine ==
    /\ pc = "parse" =>
          Len(logs) = Cardinality({j \in 1..(k - 1) : NonBlank(lines[j])})
    /\ (Handled /\ NonBlank(line) /\ HasChar(line, "T") /\ HasChar(line, "Z")
          /\ ~HasChar(line, " ")) =>
          /\ Len(logs) >= 1
          /\ logs[Len(logs)].message = Take(line, MaxMsg)

\* C5: the success feed has total = n, the number of records parsed, and
\* logs = the last min(n, 50) of them in their order; never more than 50.
C5_LastFiftyAndTotal ==
    (response_data # NoData /\ used_container # None) =>
        LET n == Len(logs)
            m == Len(response_data.logs)
        IN  /\ response_data.total = n
            /\ m <= 50
            /\ m = Min(n, 50)
            /\ \A j \in 1..m : response_data.logs[j] = logs[n - m + j]
            /\ Served => Bodies(wire) = << response_data >>

\* more than 50 records were parsed and the feed served holds the last 50
C5_Witness ==
    /\ Served
    /\ used_container # None
    /\ Len(logs) > 50
    /\ Bodies(wire)[1].total = Len(logs)
    /\ Len(Bodies(wire)[1].logs) = 50
    /\ Bodies(wire)[1].logs[50] = logs[Len(logs)]

\* C6: every record of every feed written has a message of at most 800
\* characters, the error record of the pipeline-fault feed included.  (The
\* handler does not cut the exception text.)
C6_MessagesBounded ==
    LogsRequest =>
    \A b \in 1..Len(Bodies(wire)) :
        \A j \in 1..Len(Bodies(wire)[b].logs) :
            Len(Bodies(wire)[b].logs[j].message) <= 800

\* C7: the level given to a message is decided, letter case ignored, by
\* the first rule that matches: error for ERROR, EXCEPTION, FAILED or
\* FATAL; else warning for WARN; else debug for DEBUG; else info; it is
\* always one of the four levels.
C7_RulePrecedence ==
    /\ \A j \in 1..Len(logs) : logs[j].level \in Levels
    /\ (Handled /\ Stamped(line)) =>
          /\ Len(logs) >= 1
          /\ logs[Len(logs)].level =
                RuleLevel(SubSeq(line, FirstSpace(line) + 1, Len(line)))

\* a message with FAILED and WARN in mixed case was given level error, and
\* one with WARN and DEBUG level warning
C7_Witness ==
    /\ Handled
    /\ line = LineInnerZ
    /\ logs[Len(logs)].level = "error"
    /\ Len(logs) >= 3
    /\ logs[Len(logs) - 2].message = SubSeq(LineWarnDebug, 5, Len(LineWarnDebug))
    /\ logs[Len(logs) - 2].level = "warning"

\* C8: the level of every record built from a line is the classifier's
\* result for the record's message, on the fallback path too.  (The
\* handler gives every fallback record the level info.)
C8_LevelIsClassified ==
    \A j \in 1..Len(logs) : logs[j].level = RuleLevel(logs[j].message)

\* the prefix with every 'T' made a space and one 'Z' at its end removed
StampOf(prefix) ==
    LET spaced == [j \in 1..Len(prefix) |-> IF prefix[j] = "T" THEN " " ELSE prefix[j]]
    IN  IF Len(spaced) > 0 /\ spaced[Len(spaced)] = "Z"
        THEN SubSeq(spaced, 1, Len(spaced) - 1)
        ELSE spaced

\* C9: for a line with 'T', 'Z' and a space, the message is the text after
\* the first space cut to 800 characters, and the timestamp is the text
\* before it with 'T' made a space and a 'Z' at its end removed, any other
\* 'Z' kept.  (The handler removes every 'Z'.)
C9_StampedLineSplit ==
    (Handled /\ Stamped(line)) =>
        /\ Len(logs) >= 1
        /\ logs[Len(logs)].message =
              Take(SubSeq(line, FirstSpace(line) + 1, Len(line)), MaxMsg)
        /\ logs[Len(logs)].timestamp = StampOf(SubSeq(line, 1, FirstSpace(line) - 1))

----------------------------------------------------------------------------
(* Status of the response *)

\* C10: once a response has been written, its status is 500 exactly when
\* an exception occurred, and then the body has success = false and one
\* record of level error; otherwise the status is 200 and success = true.
\* (The handler has already written the 200 status line when end_headers
\* or wfile.write raises.)
C10_StatusTellsFault ==
    (LogsRequest /\ pc = "done" /\ ~escaped) =>
        /\ Len(StatusCodes(wire)) >= 1
        /\ Len(Bodies(wire)) >= 1
        /\ StatusCodes(wire)[1] = 500 <=> exc.raised
        /\ exc.raised =>
              /\ ~Bodies(wire)[1].success
              /\ Len(Bodies(wire)[1].logs) = 1
              /\ Bodies(wire)[1].logs[1].level = "error"
        /\ ~exc.raised =>
              /\ StatusCodes(wire)[1] = 200
              /\ Bodies(wire)[1].success

----------------------------------------------------------------------------
(* Shape of the feed, number of responses *)

\* C11: every body written for Get Logs carries the four fields success,
\* logs, total and source, with len(logs) <= 50 and total >= len(logs).
\* (The error feed of line 323 has neither total nor source.)
C11_FeedShape ==
    LogsRequest =>
    \A b \in 1..Len(Bodies(wire)) :
        /\ {"success", "logs", "total", "source"} \subseteq DOMAIN Bodies(wire)[b]
        /\ Len(Bodies(wire)[b].logs) <= 50
        /\ Bodies(wire)[b].total >= Len(Bodies(wire)[b].logs)

\* C12: every request is answered by exactly one status line and one
\* body, also when an exception is raised after the 200 status line has
\* been sent; stated here for the requests that no exception has left.
\* (The handler of line 321 adds a second status line after the first.)
C12_OneResponse ==
    (LogsRequest /\ pc = "done" /\ ~escaped) =>
        /\ Len(StatusCodes(wire)) = 1
        /\ Len(Bodies(wire)) = 1

\* the docker ps call has been made
Listed == Len(calls) = Len(container_names) + 1 /\ calls[Len(calls)] = DockerPs

\* C13: a failed container listing does not reach the exception handler of
\* the request: a non-zero exit gives the debug record the text "Unable to
\* list containers", a timeout or any other exception "Docker not
\* available", and the answer is still the 200 diagnostic feed.
C13_ListingFailureContained ==
    Listed =>
        /\ exc.raised => exc.at \in {"send_response", "end_headers", "wfile.write"}
        /\ response_data.success
        /\ response_data.source = Troubleshooting
        /\ (last.kind = "completed" /\ last.returncode # 0) =>
              response_data.logs[4].message = UnableToList
        /\ last.kind \in {"timeout", "exception"} =>
              response_data.logs[4].message = DockerNotAvailable
        /\ response_data.logs[4].level = "debug"
        /\ Served =>
              /\ StatusCodes(wire) = << 200 >>
              /\ Bodies(wire) = << response_data >>

\* docker ps exited non-zero with output, and the diagnostic feed was served
\* with the placeholder
C13_Witness ==
    /\ Served
    /\ Listed
    /\ last = Completed(1, ListingShort)
    /\ StatusCodes(wire) = << 200 >>
    /\ Bodies(wire)[1].logs[4].message = UnableToList

----------------------------------------------------------------------------
(* External calls of one request *)

\* each candidate is fetched at most once, docker ps is called at most once
\* and only as the fifth call, after no candidate was accepted
BoundedCalls ==
    /\ Len(calls) <= Len(container_names) + 1
    /\ \A a, b \in 1..Len(calls) : a # b => calls[a] # calls[b]
    /\ \A j \in 1..Len(calls) :
          calls[j] = DockerPs =>
              /\ j = Len(container_names) + 1
              /\ used_container = None
              /\ logs_data = None
              /\ SubSeq(calls, 1, j - 1) = container_names

\* C14: every run ends with a response after a bounded number of external
\* calls: each candidate fetched at most once, docker ps at most once and
\* only after all four candidates were rejected.  (A run that an exception
\* leaves at lines 333-336 ends without a response, see C12.)
C14_EndsWithResponse ==
    /\ BoundedCalls
    /\ (LogsRequest /\ pc = "done") =>
          /\ Len(StatusCodes(wire)) >= 1
          /\ Len(Bodies(wire)) >= 1

----------------------------------------------------------------------------
(* Independence of the requests *)

\* the records of a raw text, line by line
RECURSIVE RecordsOf(_)
RecordsOf(ls) ==
    IF Len(ls) = 0 THEN << >>
    ELSE (IF NonBlank(ls[1]) THEN ParseLine(ls[1]) ELSE << >>) \o RecordsOf(Tail(ls))

\* the feed as a function of what this request has observed: the calls it
\* made and the result of the latest one
FeedOfObserved ==
    IF Listed
    THEN DiagnosticFeed(ListingText(last))
    ELSE Assemble(RecordsOf(Split(Strip(last.stdout), "\n")),
                  container_names[Len(calls)])

\* C15: each request resolves again from the first candidate and its feed
\* is a function of the retrieval and listing results of that request
\* alone, whatever the requests before it were.
C15_FeedOfThisRequestOnly ==
    /\ Len(calls) >= 1 => calls[1] = container_names[1]
    /\ Len(calls) = 0 =>
          /\ logs_data = None
          /\ used_container = None
          /\ logs = << >>
          /\ response_data = NoData
    /\ pc = "send" => response_data = FeedOfObserved
    /\ Served => Bodies(wire) = << FeedOfObserved >>

\* a second request was served from the last candidate, after the first
C15_Witness ==
    /\ nreq = 2
    /\ Served
    /\ used_container = localstack_plain
    /\ Bodies(wire) = << FeedOfObserved >>

----------------------------------------------------------------------------
(* Preflight, proxy and demo test *)

\* the values of the header lines called name, in the order written
HeaderValues(w, name) ==
    LET named == SelectSeq(w, LAMBDA x : x.item = "header" /\ x.name = name)
    IN  [j \in 1..Len(named) |-> named[j].value]

\* C16: an OPTIONS request on any path is answered with status 200 and the
\* three CORS headers, each with its one value, and no body.  (Lines 28-30
\* send the three headers and end_headers of lines 20-22 sends them again,
\* so each header is written twice.)
C16_PreflightAnswer ==
    (request.command = "OPTIONS" /\ pc = "done" /\ ~escaped) =>
        /\ StatusCodes(wire) = << 200 >>
        /\ Bodies(wire) = << >>
        /\ \A j \in 1..Len(CorsHeaders) :
              HeaderValues(wire, CorsHeaders[j].name) = << CorsHeaders[j].value >>

\* C17: a request under /api/ is sent to LocalStack at the path without the
\* /api prefix, with the command of the request, and a POST with its body.
\* (Line 71 builds Request(url): a POST is sent on as a GET without body.)
C17_ProxyForwards ==
    forwarded # NoForward =>
        /\ StartsWith(forwarded.url, LOCALSTACK_URL)
        /\ << "/", "a", "p", "i" >> \o From(forwarded.url, Len(LOCALSTACK_URL))
               = request.path
        /\ forwarded.method = request.command
        /\ request.command = "POST" => forwarded.data = request.body

\* C18: a POST /test whose Content-Length is no number or whose body is no
\* JSON object is answered by the one response 500 "Demo execution error",
\* and no exception leaves the handler.  (The except clause of line 163
\* names subprocess, a local that line 136 has not bound yet: the handler
\* is left by an exception and nothing is written.)
C18_DemoTestAnswered ==
    (request.command = "POST" /\ request.path = TestPath /\ pc = "done"
        /\ ReadRaises(request)) =>
        /\ ~escaped
        /\ StatusCodes(wire) = << 500 >>
        /\ Len(Bodies(wire)) = 1
        /\ StartsWith(Bodies(wire)[1], DemoErrorPrefix)

============================================================================
